---- MODULE Spec2Model ----
(***************************************************************************)
(* Model of SNOWFLAKE_CUSTOMER360_APP.py: one Streamlit script run (a      *)
(* "render pass" of main) over the FLATTENED_EMAIL_INTELLIGENCE table:     *)
(* the sidebar filters, the page dispatch, the Executive Dashboard         *)
(* metrics, the search of the Customer Search page (search_customers),    *)
(* and the AI Insights page (summary, per-customer grouping,               *)
(* categorize_customer, at-risk identification).                           *)
(*                                                                         *)
(* Numbers.  A sentiment score is an integer number of hundredths          *)
(* (-0.3 is -30).  A mean is kept exact as a fraction [num, den]; den = 0  *)
(* is the undefined mean (pandas NaN, SQL NULL).  Every comparison with a  *)
(* NaN is FALSE, as in Python.  Binary floating-point rounding of a mean   *)
(* is not modelled.                                                        *)
(*                                                                         *)
(* Chart and widget libraries (plotly, streamlit) are not modelled. A    *)
(* warehouse column is nullable in the model only for SENTIMENT_SCORE.     *)
(***************************************************************************)
EXTENDS Integers, Sequences, FiniteSets, TLC

VARIABLES
    table,              \* rows of FLATTENED_EMAIL_INTELLIGENCE, ORDER BY DATE_RECEIVED DESC
    pc,                 \* position of the script run
    page,               \* st.selectbox "Select View"
    date_range,         \* st.date_input "Date Range": <<lo, hi>>, or <<>> when not drawn
    sentiment_filter,   \* st.multiselect "Sentiment Filter"
    email_data,         \* the frame main hands to the page
    summary_stats,      \* the row returned by get_customer_summary_stats
    metrics,            \* what show_executive_dashboard has put on the page
    summary_data,       \* show_ai_insights: the summary dict of the try block
    ai_fallback,        \* show_ai_insights: the except branch ran (st.info fallback)
    customer_segments,  \* show_ai_insights: the per-customer frame
    at_risk_customers,  \* show_ai_insights: the at-risk list
    shown,              \* show_ai_insights: the at-risk customers given an expander
    search_term,        \* show_customer_search: st.text_input, "" when empty
    query,              \* search_customers: what session.sql(...).to_pandas() did
    search_results,     \* show_customer_search: the frame search_customers returned
    rendered,           \* sections of the page drawn in this run
    error               \* the uncaught exception that ended this run, or "none"

vars == << table, pc, page, date_range, sentiment_filter, email_data, summary_stats,
           metrics, summary_data, ai_fallback, customer_segments, at_risk_customers,
           shown, search_term, query, search_results, rendered, error >>

\* the variables of the search of show_customer_search
search_vars == << search_term, query, search_results >>

-----------------------------------------------------------------------------
(* Bounds of the model *)

\* the longest table the pipeline specification loads
MaxRecords == 2
\* the largest escalation count / urgent count of a drawn aggregate (SpecSeg)
MaxEscalations == 3
MaxUrgent == 2

CustomerIds == {1, 2}
\* how many rows of the export table a search term can match
SearchMatches == {0, 3, 10, 11}
Scores == {-40, 40}
Days == {1, 2, 3}
SegAverages == {-31, -30, -1, 0, 30, 31}

-----------------------------------------------------------------------------
(* Values of the program *)

Positive == "Positive"
Neutral == "Neutral"
Negative == "Negative"
SentimentOptions == {Positive, Neutral, Negative}

ExecutiveDashboard == "Executive Dashboard"
CustomerSearch == "Customer Search"
CustomerProfile == "Customer Profile"
AnalyticsDeepDive == "Analytics Deep Dive"
AIInsights == "AI Insights"
Pages == {ExecutiveDashboard, CustomerSearch, CustomerProfile, AnalyticsDeepDive, AIInsights}

HighRisk == "High Risk"
Champions == "Champions"
NeedsAttention == "Needs Attention"
Standard == "Standard"
Segments == {HighRisk, Champions, NeedsAttention, Standard}

\* thresholds of categorize_customer (hundredths for the sentiment ones)
HighRiskEscalations == 2
HighRiskSentiment == -30
ChampionSentiment == 30
NeedsAttentionUrgent == 1
\* thresholds of the at-risk selection
AtRiskSentiment == 0
AtRiskEscalations == 1
\* at_risk_customers[:5]
TopAtRisk == 5
\* search_customers: LIMIT 10
SearchLimit == 10

-----------------------------------------------------------------------------
(* Exact means and NaN-aware comparisons *)

NaN == [num |-> 0, den |-> 0]
IsNaN(a) == a.den = 0
\* Python's a < t and a > t for a float a that may be NaN; t in hundredths
Lt(a, t) == a.den > 0 /\ a.num < t * a.den
Gt(a, t) == a.den > 0 /\ a.num > t * a.den
\* the same number (NaN is the same missing value as NaN here: two aggregates
\* that are both undefined count as identical inputs)
SameAvg(a, b) == IF a.den = 0 \/ b.den = 0 THEN a.den = b.den
                 ELSE a.num * b.den = b.num * a.den

RECURSIVE SumScores(_)
SumScores(s) ==
    IF s = << >> THEN 0
    ELSE (IF Head(s).SENTIMENT_SCORE = << >> THEN 0 ELSE Head(s).SENTIMENT_SCORE[1])
         + SumScores(Tail(s))


HasScore(r) == r.SENTIMENT_SCORE # << >>
IsEscalation(r) == r.ESCALATION_NEEDED
IsImmediate(r) == r.RESPONSE_URGENCY = "immediate"
IsPositive(r) == r.SENTIMENT_CATEGORY = Positive
IsNegative(r) == r.SENTIMENT_CATEGORY = Negative

\* Series.sum() of a boolean column, COUNT(CASE WHEN ... THEN 1 END), Series.count()
CountEscalations(s) == Len(SelectSeq(s, IsEscalation))
CountImmediate(s) == Len(SelectSeq(s, IsImmediate))
CountPositive(s) == Len(SelectSeq(s, IsPositive))
CountNegative(s) == Len(SelectSeq(s, IsNegative))
CountScored(s) == Len(SelectSeq(s, HasScore))

\* Series.mean() / SQL AVG: NULL scores are skipped; no score at all gives NaN / NULL
Mean(s) == [num |-> SumScores(s), den |-> CountScored(s)]

CustomerIdsOf(s) == {s[i].CUSTOMER_ID : i \in 1..Len(s)}
DatesOf(s) == {s[i].DATE_RECEIVED : i \in 1..Len(s)}
MinOf(S) == CHOOSE x \in S : \A y \in S : x <= y
MaxOf(S) == CHOOSE x \in S : \A y \in S : x >= y

\* n / d rounded to the nearest integer, d > 0: what a fixed-point format
\* keeps of a quotient
RoundDiv(n, d) == (2 * n + d) \div (2 * d)

-----------------------------------------------------------------------------
(* The warehouse table *)

\* the category the enrichment gives a score in the sample rows
CategoryOf(score) ==
    IF score = << >> THEN Neutral
    ELSE IF score[1] > 0 THEN Positive
    ELSE IF score[1] < 0 THEN Negative ELSE Neutral

EmailRows ==
    { [CUSTOMER_ID |-> c, SENTIMENT_SCORE |-> sc, ESCALATION_NEEDED |-> e,
       RESPONSE_URGENCY |-> u, SENTIMENT_CATEGORY |-> CategoryOf(sc), DATE_RECEIVED |-> 1] :
        c \in CustomerIds, sc \in {<< >>} \cup {<<x>> : x \in Scores},
        e \in BOOLEAN, u \in {"immediate", "standard"} }

\* rows received on several days, none escalated or urgent
DatedRows ==
    { [CUSTOMER_ID |-> c, SENTIMENT_SCORE |-> <<x>>, ESCALATION_NEEDED |-> FALSE,
       RESPONSE_URGENCY |-> "standard", SENTIMENT_CATEGORY |-> CategoryOf(<<x>>),
       DATE_RECEIVED |-> d] :
        c \in CustomerIds, x \in Scores, d \in Days }

\* ORDER BY DATE_RECEIVED DESC
IsDateDesc(s) == \A i \in 1..Len(s) - 1 : s[i].DATE_RECEIVED >= s[i + 1].DATE_RECEIVED

Tables(Sample) ==
    { s \in UNION {[1..n -> Sample] : n \in 0..MaxRecords} : IsDateDesc(s) }

\* the tables the model loads: rows of one day with every combination of
\* score, escalation and urgency, or rows of several days
SampleTables == Tables(EmailRows) \cup Tables(DatedRows)

\* load_email_intelligence: the whole table, newest first
load_email_intelligence == table

\* get_customer_summary_stats with COUNT(CUSTOMER_ID) for COUNT(DISTINCT CUSTOMER_ID)
get_customer_summary_stats_not_distinct ==
    [TOTAL_CUSTOMERS |-> Len(table),
     TOTAL_EMAILS |-> Len(table),
     ESCALATIONS_NEEDED |-> CountEscalations(table),
     NEGATIVE_SENTIMENT |-> CountNegative(table),
     POSITIVE_SENTIMENT |-> CountPositive(table),
     AVG_SENTIMENT_SCORE |-> Mean(table)]

\* get_customer_summary_stats: one aggregate row over the whole table
get_customer_summary_stats ==
    [TOTAL_CUSTOMERS |-> Cardinality(CustomerIdsOf(table)),
     TOTAL_EMAILS |-> Len(table),
     ESCALATIONS_NEEDED |-> CountEscalations(table),
     NEGATIVE_SENTIMENT |-> CountNegative(table),
     POSITIVE_SENTIMENT |-> CountPositive(table),
     AVG_SENTIMENT_SCORE |-> Mean(table)]

NoStats == [TOTAL_CUSTOMERS |-> 0, TOTAL_EMAILS |-> 0, ESCALATIONS_NEEDED |-> 0,
            NEGATIVE_SENTIMENT |-> 0, POSITIVE_SENTIMENT |-> 0, AVG_SENTIMENT_SCORE |-> NaN]

-----------------------------------------------------------------------------
(* main: load, sidebar, filters *)

\* the date filter with < for <= at the end of the range
DateFilter_exclusive_end(s, range) ==
    LET InRange(r) == r.DATE_RECEIVED >= range[1] /\ r.DATE_RECEIVED < range[2]
    IN  SelectSeq(s, InRange)

\* the date filter of main: both ends inclusive
DateFilter(s, range) ==
    LET InRange(r) == r.DATE_RECEIVED >= range[1] /\ r.DATE_RECEIVED <= range[2]
    IN  SelectSeq(s, InRange)

\* the sentiment filter of main: skipped when nothing is selected
SentimentFilter(s, selection) ==
    LET Selected(r) == r.SENTIMENT_CATEGORY \in selection
    IN  IF selection # {} THEN SelectSeq(s, Selected) ELSE s

\* the ranges st.date_input can return: within [min_value, max_value]
DateRanges(s) ==
    IF s = << >> THEN {<< >>}
    ELSE LET days == MinOf(DatesOf(s))..MaxOf(DatesOf(s))
         IN  {range \in days \X days : range[1] <= range[2]}

\* the selections of the multiselect the model draws
SentimentSelections == {SentimentOptions, {Positive}, {}}

Filtered(s, range, selection) ==
    SentimentFilter(IF s = << >> THEN s ELSE DateFilter(s, range), selection)

Init ==
    /\ table \in SampleTables
    /\ pc = "start"
    /\ page = ExecutiveDashboard
    /\ date_range = << >>
    /\ sentiment_filter = SentimentOptions
    /\ email_data = << >>
    /\ summary_stats = NoStats
    /\ metrics = << >>
    /\ summary_data = << >>
    /\ ai_fallback = FALSE
    /\ customer_segments = << >>
    /\ at_risk_customers = << >>
    /\ shown = << >>
    /\ search_term = ""
    /\ query = "not run"
    /\ search_results = << >>
    /\ rendered = {}
    /\ error = "none"

\* value= of st.date_input: the whole span of the loaded table
DefaultRange(s) ==
    IF s = << >> THEN << >> ELSE <<MinOf(DatesOf(s)), MaxOf(DatesOf(s))>>

\* main with the filtered frame of the run before kept (as in st.session_state)
\* and filtered again, in place of a fresh load
Main_carry_over ==
    /\ pc \in {"start", "done", "aborted"}
    /\ \E p \in Pages, range \in DateRanges(load_email_intelligence),
          selection \in SentimentSelections :
        /\ pc = "start" => /\ p = ExecutiveDashboard
                           /\ range = DefaultRange(load_email_intelligence)
                           /\ selection = SentimentOptions
        /\ page' = p
        /\ date_range' = range
        /\ sentiment_filter' = selection
        /\ email_data' = Filtered(IF pc = "start" THEN load_email_intelligence
                                  ELSE email_data, range, selection)
    /\ summary_stats' = get_customer_summary_stats
    /\ metrics' = << >>
    /\ summary_data' = << >>
    /\ ai_fallback' = FALSE
    /\ customer_segments' = << >>
    /\ at_risk_customers' = << >>
    /\ shown' = << >>
    /\ search_term' = ""
    /\ query' = "not run"
    /\ search_results' = << >>
    /\ rendered' = {"sidebar"}
    /\ error' = "none"
    /\ pc' = "page"
    /\ UNCHANGED table

\* main, lines 208-254: a script run starts, loads, draws the sidebar and
\* filters email_data.  The first run of a session sees every widget at its
\* default (first page, whole date span, all three sentiments); a widget has
\* another value only in the rerun Streamlit makes when the user changes it.
Main ==
    /\ pc \in {"start", "done", "aborted"}
    /\ \E p \in Pages, range \in DateRanges(load_email_intelligence),
          selection \in SentimentSelections :
        /\ pc = "start" => /\ p = ExecutiveDashboard
                           /\ range = DefaultRange(load_email_intelligence)
                           /\ selection = SentimentOptions
        /\ page' = p
        /\ date_range' = range
        /\ sentiment_filter' = selection
        /\ email_data' = Filtered(load_email_intelligence, range, selection)
    /\ summary_stats' = get_customer_summary_stats
    /\ metrics' = << >>
    /\ summary_data' = << >>
    /\ ai_fallback' = FALSE
    /\ customer_segments' = << >>
    /\ at_risk_customers' = << >>
    /\ shown' = << >>
    /\ search_term' = ""
    /\ query' = "not run"
    /\ search_results' = << >>
    /\ rendered' = {"sidebar"}
    /\ error' = "none"
    /\ pc' = "page"
    /\ UNCHANGED table

-----------------------------------------------------------------------------
(* show_executive_dashboard *)

\* f"{x:.1f}%" of x = n / d * 100, in tenths of a percent
Rate(n, d) == RoundDiv(1000 * n, d)

\* the metrics of columns 1 and 2: the table's totals, the filtered frame's deltas
CountMetrics(stats, frame) ==
    [total_emails |-> stats.TOTAL_EMAILS,
     total_emails_delta |-> Len(frame),
     total_customers |-> stats.TOTAL_CUSTOMERS,
     total_customers_delta |-> Cardinality(CustomerIdsOf(frame))]

\* the metrics of columns 3 and 4; TOTAL_EMAILS is not 0
RateMetrics(stats) ==
    [escalation_rate |-> Rate(stats.ESCALATIONS_NEEDED, stats.TOTAL_EMAILS),
     positive_rate |-> Rate(stats.POSITIVE_SENTIMENT, stats.TOTAL_EMAILS)]

\* f"{x:.2f}" of a mean, in hundredths
Format2(a) == RoundDiv(a.num, a.den)

\* the metric of column 5; AVG_SENTIMENT_SCORE is not NULL
SentimentMetric(stats) == [avg_sentiment |-> Format2(stats.AVG_SENTIMENT_SCORE)]

\* lines 268-363.  The two divisions by TOTAL_EMAILS are Python int divisions:
\* over an empty table they raise ZeroDivisionError.  Formatting a NULL average
\* with ":.2f" raises TypeError.  Neither is caught.
show_executive_dashboard ==
    /\ pc = "page"
    /\ page = ExecutiveDashboard
    /\ IF summary_stats.TOTAL_EMAILS = 0
       THEN /\ metrics' = CountMetrics(summary_stats, email_data)
            /\ rendered' = rendered
            /\ error' = "ZeroDivisionError"
            /\ pc' = "aborted"
       ELSE IF IsNaN(summary_stats.AVG_SENTIMENT_SCORE)
       THEN /\ metrics' = CountMetrics(summary_stats, email_data) @@ RateMetrics(summary_stats)
            /\ rendered' = rendered
            /\ error' = "TypeError"
            /\ pc' = "aborted"
       ELSE /\ metrics' = CountMetrics(summary_stats, email_data) @@ RateMetrics(summary_stats)
                          @@ SentimentMetric(summary_stats)
            /\ rendered' = rendered \cup {"metrics", "charts", "priority"}
            /\ error' = error
            /\ pc' = "done"
    /\ UNCHANGED << search_vars, table, page, date_range, sentiment_filter, email_data, summary_stats,
                    summary_data, ai_fallback, customer_segments, at_risk_customers, shown >>

-----------------------------------------------------------------------------
(* the other views: only what they draw *)

\* the search terms the model types: none, or one
SearchTerms == {"", "smith"}

\* what the query of search_customers can do: raise, or return; and how many
\* rows of "2025-06-23T16-21_EXPORT" match its WHERE clause
QueryOutcomes ==
    {[raised |-> x, matches |-> 0] : x \in {"SnowparkSQLException"}}
        \cup {[raised |-> "none", matches |-> n] : n \in SearchMatches}

\* ORDER BY DATE_RECEIVED DESC LIMIT 10: the first rows of the matches (a row
\* is its rank in that order)
Limit(matches) ==
    [i \in 1..(IF matches < SearchLimit THEN matches ELSE SearchLimit) |-> i]

\* search_customers without its try/except
search_customers_no_except(outcome) ==
    [raised |-> outcome.raised,
     frame |-> IF outcome.raised # "none" THEN << >> ELSE Limit(outcome.matches)]

\* search_customers, lines 143-165: the frame of the query, or the empty
\* pd.DataFrame() of the bare except; raised is what leaves the function
search_customers(outcome) ==
    IF outcome.raised # "none"
    THEN [raised |-> "none", frame |-> << >>]
    ELSE [raised |-> "none", frame |-> Limit(outcome.matches)]

\* show_customer_search, lines 365-427: the search box, the search when a
\* term is typed (lines 381-403), the quick-filter buttons
show_customer_search ==
    /\ pc = "page"
    /\ page = CustomerSearch
    /\ \E term \in SearchTerms, outcome \in QueryOutcomes :
        LET returned == search_customers(outcome) IN
        /\ search_term' = term
        /\ IF term = ""
           THEN /\ query' = "not run"
                /\ search_results' = << >>
                /\ rendered' = rendered \cup {"search", "quick_filters"}
                /\ error' = "none"
                /\ pc' = "done"
           ELSE IF returned.raised # "none"
           THEN /\ query' = "raised"
                /\ search_results' = << >>
                /\ rendered' = rendered \cup {"search"}
                /\ error' = returned.raised
                /\ pc' = "aborted"
           ELSE /\ query' = IF outcome.raised # "none" THEN "raised" ELSE "returned"
                /\ search_results' = returned.frame
                /\ rendered' = rendered \cup {"search", "quick_filters"}
                                    \cup (IF returned.frame # << >> THEN {"found"}
                                          ELSE {"no_results"})
                /\ error' = "none"
                /\ pc' = "done"
    /\ UNCHANGED << table, page, date_range, sentiment_filter, email_data, summary_stats,
                    metrics, summary_data, ai_fallback, customer_segments,
                    at_risk_customers, shown >>

\* lines 429-439: with no customer to select, selectbox returns None and the
\* profile body is skipped
show_customer_profile ==
    /\ pc = "page"
    /\ page = CustomerProfile
    /\ rendered' = rendered \cup (IF email_data = << >> THEN {"selector"}
                                  ELSE {"selector", "profile"})
    /\ pc' = "done"
    /\ UNCHANGED << search_vars, table, page, date_range, sentiment_filter, email_data, summary_stats,
                    metrics, summary_data, ai_fallback, customer_segments,
                    at_risk_customers, shown, error >>

show_analytics_deep_dive ==
    /\ pc = "page"
    /\ page = AnalyticsDeepDive
    /\ rendered' = rendered \cup {"trends"}
    /\ pc' = "done"
    /\ UNCHANGED << search_vars, table, page, date_range, sentiment_filter, email_data, summary_stats,
                    metrics, summary_data, ai_fallback, customer_segments,
                    at_risk_customers, shown, error >>

-----------------------------------------------------------------------------
(* show_ai_insights *)

\* lines 596-602: the summary dict.  escalation_rate is sum / len * 100 as a
\* fraction; over an empty frame numpy's 0 / 0 is nan (den = 0)
SummaryData(frame) ==
    [total_emails |-> Len(frame),
     avg_sentiment |-> Mean(frame),
     escalation_rate |-> [num |-> 100 * CountEscalations(frame), den |-> Len(frame)],
     urgent_responses |-> CountImmediate(frame)]

\* what the try block of lines 594-640 can raise.  "Exception" stands for any
\* failure inside it.  Over an empty frame ESCALATION_NEEDED.sum() is numpy's 0
\* (0 / 0 is then nan, with a warning) or, for an object column, Python's 0
\* (0 / 0 then raises ZeroDivisionError).
SummaryOutcomes(frame) ==
    {"none", "Exception"} \cup (IF frame = << >> THEN {"ZeroDivisionError"} ELSE {})

\* the summary step with an except branch that shows the fallback and re-raises
AISummary_reraise ==
    /\ pc = "page"
    /\ page = AIInsights
    /\ \E raised \in SummaryOutcomes(email_data) :
        IF raised = "none"
        THEN /\ summary_data' = SummaryData(email_data)
             /\ ai_fallback' = FALSE
             /\ rendered' = rendered \cup {"ai_summary"}
             /\ error' = error
             /\ pc' = "groupby"
        ELSE /\ summary_data' = << >>
             /\ ai_fallback' = TRUE
             /\ rendered' = rendered \cup {"ai_fallback"}
             /\ error' = raised
             /\ pc' = "aborted"
    /\ UNCHANGED << search_vars, table, page, date_range, sentiment_filter, email_data, summary_stats,
                    metrics, customer_segments, at_risk_customers, shown >>

\* lines 590-643: every exception of the try block is caught and replaced by
\* the st.info fallback
AISummary ==
    /\ pc = "page"
    /\ page = AIInsights
    /\ \E raised \in SummaryOutcomes(email_data) :
        IF raised = "none"
        THEN /\ summary_data' = SummaryData(email_data)
             /\ ai_fallback' = FALSE
             /\ rendered' = rendered \cup {"ai_summary"}
        ELSE /\ summary_data' = << >>
             /\ ai_fallback' = TRUE
             /\ rendered' = rendered \cup {"ai_fallback"}
    /\ pc' = "groupby"
    /\ UNCHANGED << search_vars, table, page, date_range, sentiment_filter, email_data, summary_stats,
                    metrics, customer_segments, at_risk_customers, shown, error >>

\* the keys of a groupby, which sorts them
RECURSIVE SortedSeq(_)
SortedSeq(S) == IF S = {} THEN << >> ELSE <<MinOf(S)>> \o SortedSeq(S \ {MinOf(S)})

\* the aggregate with its urgent count taken over the whole frame, not the group
Aggregate_urgent_of_frame(frame, c) ==
    LET OfCustomer(r) == r.CUSTOMER_ID = c
        group == SelectSeq(frame, OfCustomer)
    IN  [CUSTOMER_ID |-> c,
         AVG_SENTIMENT |-> Mean(group),
         TOTAL_ESCALATIONS |-> CountEscalations(group),
         TOTAL_EMAILS |-> Len(group),
         URGENT_EMAILS |-> CountImmediate(frame)]

\* lines 649-656: one row per CUSTOMER_ID, in ascending CUSTOMER_ID
Aggregate(frame, c) ==
    LET OfCustomer(r) == r.CUSTOMER_ID = c
        group == SelectSeq(frame, OfCustomer)
    IN  [CUSTOMER_ID |-> c,
         AVG_SENTIMENT |-> Mean(group),
         TOTAL_ESCALATIONS |-> CountEscalations(group),
         TOTAL_EMAILS |-> Len(group),
         URGENT_EMAILS |-> CountImmediate(group)]

\* the keys in order of first appearance: groupby(sort=False)
RECURSIVE FirstSeen(_)
FirstSeen(frame) ==
    IF frame = << >> THEN << >>
    ELSE LET c == Head(frame).CUSTOMER_ID
             Other(r) == r.CUSTOMER_ID # c
         IN  <<c>> \o FirstSeen(SelectSeq(Tail(frame), Other))

GroupByCustomer_unsorted(frame) ==
    LET keys == FirstSeen(frame)
    IN  [i \in 1..Len(keys) |-> Aggregate(frame, keys[i])]

GroupByCustomer(frame) ==
    LET keys == SortedSeq(CustomerIdsOf(frame))
    IN  [i \in 1..Len(keys) |-> Aggregate(frame, keys[i])]

GroupBy ==
    /\ pc = "groupby"
    /\ customer_segments' = GroupByCustomer(email_data)
    /\ pc' = "categorize"
    /\ UNCHANGED << search_vars, table, page, date_range, sentiment_filter, email_data, summary_stats,
                    metrics, summary_data, ai_fallback, at_risk_customers, shown,
                    rendered, error >>

\* categorize_customer with the urgent rule tested before the Champions rule
categorize_customer_urgent_first(row) ==
    IF row.TOTAL_ESCALATIONS > HighRiskEscalations \/ Lt(row.AVG_SENTIMENT, HighRiskSentiment)
    THEN HighRisk
    ELSE IF row.URGENT_EMAILS > NeedsAttentionUrgent
    THEN NeedsAttention
    ELSE IF Gt(row.AVG_SENTIMENT, ChampionSentiment) /\ row.TOTAL_ESCALATIONS = 0
    THEN Champions
    ELSE Standard

\* categorize_customer with inclusive comparisons (<=, >=)
categorize_customer_inclusive(row) ==
    IF row.TOTAL_ESCALATIONS >= HighRiskEscalations
       \/ (~IsNaN(row.AVG_SENTIMENT) /\ ~Gt(row.AVG_SENTIMENT, HighRiskSentiment))
    THEN HighRisk
    ELSE IF (~IsNaN(row.AVG_SENTIMENT) /\ ~Lt(row.AVG_SENTIMENT, ChampionSentiment))
            /\ row.TOTAL_ESCALATIONS = 0
    THEN Champions
    ELSE IF row.URGENT_EMAILS > NeedsAttentionUrgent
    THEN NeedsAttention
    ELSE Standard

\* categorize_customer without its else branch (Python then returns None)
categorize_customer_no_else(row) ==
    IF row.TOTAL_ESCALATIONS > HighRiskEscalations \/ Lt(row.AVG_SENTIMENT, HighRiskSentiment)
    THEN HighRisk
    ELSE IF Gt(row.AVG_SENTIMENT, ChampionSentiment) /\ row.TOTAL_ESCALATIONS = 0
    THEN Champions
    ELSE IF row.URGENT_EMAILS > NeedsAttentionUrgent
    THEN NeedsAttention
    ELSE "None"

\* lines 659-667
categorize_customer(row) ==
    IF row.TOTAL_ESCALATIONS > HighRiskEscalations \/ Lt(row.AVG_SENTIMENT, HighRiskSentiment)
    THEN HighRisk
    ELSE IF Gt(row.AVG_SENTIMENT, ChampionSentiment) /\ row.TOTAL_ESCALATIONS = 0
    THEN Champions
    ELSE IF row.URGENT_EMAILS > NeedsAttentionUrgent
    THEN NeedsAttention
    ELSE Standard

\* line 669: the SEGMENT column.  Over a frame without rows DataFrame.apply
\* (axis=1) gives an empty Series (pandas 1.5 and later) and the column is empty
WithSegments(frame) ==
    [i \in 1..Len(frame) |-> frame[i] @@ [SEGMENT |-> categorize_customer(frame[i])]]

\* lines 658-698: the SEGMENT column and the segment chart and metrics
Categorize ==
    /\ pc = "categorize"
    /\ customer_segments' = WithSegments(customer_segments)
    /\ rendered' = rendered \cup {"segments"}
    /\ pc' = "identify"
    /\ UNCHANGED << search_vars, table, page, date_range, sentiment_filter, email_data, summary_stats,
                    metrics, summary_data, ai_fallback, at_risk_customers, shown, error >>

\* the at-risk test with & for | between its two clauses
IsAtRisk_both_clauses(row) ==
    Lt(row.AVG_SENTIMENT, AtRiskSentiment) /\ row.TOTAL_ESCALATIONS > AtRiskEscalations

\* the at-risk test with the High Risk thresholds in place of its own
IsAtRisk_high_risk_thresholds(row) ==
    Lt(row.AVG_SENTIMENT, HighRiskSentiment) \/ row.TOTAL_ESCALATIONS > HighRiskEscalations

\* lines 704-707: the rows kept, in the frame's order
IsAtRisk(row) ==
    Lt(row.AVG_SENTIMENT, AtRiskSentiment) \/ row.TOTAL_ESCALATIONS > AtRiskEscalations

AtRiskCustomers(frame) ==
    LET kept == SelectSeq(frame, IsAtRisk)
    IN  [i \in 1..Len(kept) |-> kept[i].CUSTOMER_ID]

IdentifyAtRisk ==
    /\ pc = "identify"
    /\ at_risk_customers' = AtRiskCustomers(customer_segments)
    /\ pc' = "atrisk"
    /\ UNCHANGED << search_vars, table, page, date_range, sentiment_filter, email_data, summary_stats,
                    metrics, summary_data, ai_fallback, customer_segments, shown,
                    rendered, error >>

\* at_risk_customers[:5]
Top(s) == SubSeq(s, 1, IF Len(s) < TopAtRisk THEN Len(s) ELSE TopAtRisk)

\* lines 709-722: the warning and one expander per listed customer
RenderAtRisk ==
    /\ pc = "atrisk"
    /\ shown' = Top(at_risk_customers)
    /\ rendered' = rendered \cup (IF at_risk_customers # << >> THEN {"at_risk"} ELSE {})
    /\ pc' = "done"
    /\ UNCHANGED << search_vars, table, page, date_range, sentiment_filter, email_data, summary_stats,
                    metrics, summary_data, ai_fallback, customer_segments,
                    at_risk_customers, error >>

-----------------------------------------------------------------------------
(* The script run *)

Next ==
    \/ Main
    \/ show_executive_dashboard
    \/ show_customer_search
    \/ show_customer_profile
    \/ show_analytics_deep_dive
    \/ AISummary
    \/ GroupBy
    \/ Categorize
    \/ IdentifyAtRisk
    \/ RenderAtRisk

Spec == Init /\ [][Next]_vars

-----------------------------------------------------------------------------
(* categorize_customer and the at-risk selection over drawn aggregates *)

SegAverageValues == {NaN} \cup {[num |-> x, den |-> 1] : x \in SegAverages}

SegRows(c) ==
    { [CUSTOMER_ID |-> c, AVG_SENTIMENT |-> a, TOTAL_ESCALATIONS |-> e,
       TOTAL_EMAILS |-> IF e = 0 /\ u = 0 THEN 1 ELSE IF e > u THEN e ELSE u,
       URGENT_EMAILS |-> u] :
        a \in SegAverageValues, e \in 0..MaxEscalations, u \in 0..MaxUrgent }

\* the frames handed to line 669: one aggregate, or two with ascending keys
SegFrames == {<<r>> : r \in SegRows(1)} \cup (SegRows(1) \X SegRows(2))

InitSeg ==
    /\ customer_segments \in SegFrames
    /\ pc = "categorize"
    /\ page = AIInsights
    /\ table = << >>
    /\ date_range = << >>
    /\ sentiment_filter = SentimentOptions
    /\ email_data = << >>
    /\ summary_stats = NoStats
    /\ metrics = << >>
    /\ summary_data = << >>
    /\ ai_fallback = FALSE
    /\ at_risk_customers = << >>
    /\ shown = << >>
    /\ search_term = ""
    /\ query = "not run"
    /\ search_results = << >>
    /\ rendered = {}
    /\ error = "none"

NextSeg == Categorize \/ IdentifyAtRisk

SpecSeg == InitSeg /\ [][NextSeg]_vars

-----------------------------------------------------------------------------
(* Claims *)

Categorized == pc \in {"identify", "atrisk", "done"}
Rows == {customer_segments[i] : i \in 1..Len(customer_segments)}

\* C1: every aggregate gets the segment of the ordered first-match rule: High
\* Risk if escalations > 2 or average < -0.3; else Champions if average > 0.3
\* and escalations = 0; else Needs Attention if urgent > 1; else Standard.  So
\* average > 0.3, no escalation and urgent > 1 is Champions, and escalations > 2
\* is High Risk whatever the rest.
C1_OrderedFirstMatch ==
    Categorized =>
        \A r \in Rows :
            LET high == r.TOTAL_ESCALATIONS > 2 \/ Lt(r.AVG_SENTIMENT, -30)
                champion == Gt(r.AVG_SENTIMENT, 30) /\ r.TOTAL_ESCALATIONS = 0
                attention == r.URGENT_EMAILS > 1
            IN  /\ (r.SEGMENT = HighRisk) = high
                /\ (r.SEGMENT = Champions) = (~high /\ champion)
                /\ (r.SEGMENT = NeedsAttention) = (~high /\ ~champion /\ attention)
                /\ (r.SEGMENT = Standard) = (~high /\ ~champion /\ ~attention)

C1_Witness ==
    /\ Categorized
    /\ \E r \in Rows : /\ Gt(r.AVG_SENTIMENT, 30) /\ r.TOTAL_ESCALATIONS = 0
                       /\ r.URGENT_EMAILS > 1 /\ r.SEGMENT = Champions
    /\ \E r \in Rows : /\ r.TOTAL_ESCALATIONS > 2 /\ Gt(r.AVG_SENTIMENT, 30)
                       /\ r.SEGMENT = HighRisk

\* C3: the thresholds are strict: an average of exactly -0.3 is not High Risk
\* by the sentiment clause, an average of exactly 0.3 is not Champions, and
\* exactly 2 escalations are not High Risk by the escalation clause.
C3_StrictThresholds ==
    Categorized =>
        \A r \in Rows :
            LET exactly(t) == r.AVG_SENTIMENT.den > 0
                              /\ r.AVG_SENTIMENT.num = t * r.AVG_SENTIMENT.den
            IN  /\ (exactly(-30) /\ r.TOTAL_ESCALATIONS <= 2) => r.SEGMENT # HighRisk
                /\ exactly(30) => r.SEGMENT # Champions
                /\ (r.TOTAL_ESCALATIONS = 2 /\ ~Lt(r.AVG_SENTIMENT, -30))
                       => r.SEGMENT # HighRisk

C3_Witness ==
    /\ Categorized
    /\ Len(customer_segments) = 2
    /\ customer_segments[1].AVG_SENTIMENT = [num |-> -30, den |-> 1]
    /\ customer_segments[1].TOTAL_ESCALATIONS = 2
    /\ customer_segments[1].SEGMENT # HighRisk
    /\ customer_segments[2].AVG_SENTIMENT = [num |-> 30, den |-> 1]
    /\ customer_segments[2].TOTAL_ESCALATIONS = 0
    /\ customer_segments[2].SEGMENT = Standard

\* C2: segmentation is total, exclusive and deterministic: every aggregate the
\* grouping produces carries exactly one of the four labels, and two aggregates
\* with the same average, escalation count and urgent count carry the same one.
C2_ExactlyOneSegment ==
    Categorized =>
        /\ \A r \in Rows : Cardinality({g \in Segments : r.SEGMENT = g}) = 1
        /\ \A r1, r2 \in Rows :
               ( /\ SameAvg(r1.AVG_SENTIMENT, r2.AVG_SENTIMENT)
                 /\ r1.TOTAL_ESCALATIONS = r2.TOTAL_ESCALATIONS
                 /\ r1.URGENT_EMAILS = r2.URGENT_EMAILS ) => r1.SEGMENT = r2.SEGMENT

C2_Witness ==
    /\ Categorized
    /\ email_data # << >>
    /\ Len(customer_segments) = 2
    /\ SameAvg(customer_segments[1].AVG_SENTIMENT, customer_segments[2].AVG_SENTIMENT)
    /\ customer_segments[1].TOTAL_ESCALATIONS = customer_segments[2].TOTAL_ESCALATIONS
    /\ customer_segments[1].URGENT_EMAILS = customer_segments[2].URGENT_EMAILS
    /\ customer_segments[1].SEGMENT = Standard
    /\ customer_segments[2].SEGMENT = Standard

InAtRisk(c) == \E i \in 1..Len(at_risk_customers) : at_risk_customers[i] = c

\* C4: a customer is in the at-risk list if and only if its average sentiment
\* is < 0 or its escalations are > 1; each clause alone suffices, and average
\* >= 0 with at most 1 escalation is left out.
C4_AtRiskIff ==
    pc = "atrisk" =>
        /\ \A r \in Rows :
               InAtRisk(r.CUSTOMER_ID) = (Lt(r.AVG_SENTIMENT, 0) \/ r.TOTAL_ESCALATIONS > 1)
        /\ \A i \in 1..Len(at_risk_customers) :
               \E r \in Rows : r.CUSTOMER_ID = at_risk_customers[i]

C4_Witness ==
    /\ pc = "atrisk"
    /\ Len(customer_segments) = 2
    /\ customer_segments[1].AVG_SENTIMENT = [num |-> -1, den |-> 1]
    /\ customer_segments[1].TOTAL_ESCALATIONS = 0
    /\ customer_segments[2].AVG_SENTIMENT = [num |-> 31, den |-> 1]
    /\ customer_segments[2].TOTAL_ESCALATIONS = 2
    /\ at_risk_customers = <<1, 2>>

\* the place of a customer's first record in a frame
FirstRecord(frame, c) == MinOf({i \in 1..Len(frame) : frame[i].CUSTOMER_ID = c})

AtRiskListed == pc \in {"atrisk", "done"}

AggregatedOverEmpty ==
    \/ /\ page = ExecutiveDashboard
       /\ pc \in {"done", "aborted"}
       /\ table = << >>
    \/ /\ page = AIInsights
       /\ pc \in {"groupby", "categorize", "identify", "atrisk", "done", "aborted"}
       /\ email_data = << >>

\* C6: aggregation over an empty record set is reported as an EmptyInputError:
\* no rate or mean is silently produced, and no raw division error is raised.
C6_EmptyInputReported == AggregatedOverEmpty => error = "EmptyInputError"

\* C7: a failure in the AI-summary step is replaced by the fallback and is not
\* fatal: the run that took the fallback goes on without an error, and at its
\* end the segmentation and the at-risk list of the same record set have been
\* computed and drawn.
C7_SummaryFailureNotFatal ==
    (page = AIInsights /\ ai_fallback) =>
        /\ error = "none"
        /\ pc \in {"groupby", "categorize", "identify", "atrisk", "done"}
        /\ "ai_fallback" \in rendered
        /\ pc = "done" =>
               /\ "segments" \in rendered
               /\ Len(customer_segments) = Cardinality(CustomerIdsOf(email_data))
               /\ \A r \in Rows : r.SEGMENT \in Segments
               /\ \A r \in Rows :
                      (Lt(r.AVG_SENTIMENT, 0) \/ r.TOTAL_ESCALATIONS > 1)
                          => (InAtRisk(r.CUSTOMER_ID) /\ "at_risk" \in rendered)

C7_Witness ==
    /\ page = AIInsights
    /\ ai_fallback
    /\ pc = "done"
    /\ error = "none"
    /\ {"ai_fallback", "segments", "at_risk"} \subseteq rendered
    /\ Len(customer_segments) = 2
    /\ shown = <<1, 2>>

\* C8: no run of main ends in an uncaught error, for every record set and view.
C8_NoUncaughtError == error = "none" /\ pc # "aborted"

\* the records that pass the current filters, from the table
Passing ==
    LET Pass(r) == /\ date_range # << >> => ( /\ r.DATE_RECEIVED >= date_range[1]
                                             /\ r.DATE_RECEIVED <= date_range[2] )
                   /\ sentiment_filter # {} => r.SENTIMENT_CATEGORY \in sentiment_filter
    IN  SelectSeq(table, Pass)

\* how many records of a frame are escalations, are positive, have a score
Escalated(frame) == Cardinality({i \in 1..Len(frame) : frame[i].ESCALATION_NEEDED})
PositiveOnes(frame) ==
    Cardinality({i \in 1..Len(frame) : frame[i].SENTIMENT_CATEGORY = "Positive"})
Scored(frame) == Cardinality({i \in 1..Len(frame) : frame[i].SENTIMENT_SCORE # << >>})

DashboardDrawn == page = ExecutiveDashboard /\ pc = "done"

\* C9 as claimed: each statistic on the Executive Dashboard is the value over
\* exactly the records that pass the current filters.
C9_StatsOverFilteredRecords ==
    DashboardDrawn =>
        /\ metrics.total_emails = Len(Passing)
        /\ metrics.total_customers = Cardinality(CustomerIdsOf(Passing))
        /\ Passing # << >> =>
               /\ metrics.escalation_rate
                    = RoundDiv(1000 * Escalated(Passing), Len(Passing))
               /\ metrics.positive_rate
                    = RoundDiv(1000 * PositiveOnes(Passing), Len(Passing))

\* C9 as amended: the headline statistics are the values over the whole table,
\* whatever the filters; only the two "this period" deltas (records, distinct
\* customers) are the values over the records that pass the filters.
C9_StatsOverWholeTable ==
    DashboardDrawn =>
        /\ metrics.total_emails = Len(table)
        /\ metrics.total_customers = Cardinality(CustomerIdsOf(table))
        /\ metrics.escalation_rate
             = RoundDiv(1000 * Escalated(table), Len(table))
        /\ metrics.positive_rate
             = RoundDiv(1000 * PositiveOnes(table), Len(table))
        /\ metrics.avg_sentiment
             = RoundDiv(SumScores(table), Scored(table))
        /\ metrics.total_emails_delta = Len(Passing)
        /\ metrics.total_customers_delta = Cardinality(CustomerIdsOf(Passing))

C9_Witness ==
    /\ DashboardDrawn
    /\ Len(table) = 2
    /\ date_range = <<2, 3>>
    /\ sentiment_filter = {Positive}
    /\ Len(Passing) = 1
    /\ metrics.total_emails = 2
    /\ metrics.total_emails_delta = 1
    /\ metrics.total_customers = 2
    /\ metrics.total_customers_delta = 1
    /\ metrics.positive_rate = 1000

\* C10: an aggregate whose average is undefined gets an explicit default
\* segment: one label, the same for every such aggregate, not whatever the
\* remaining comparisons of the rule give.
C10_UndefinedAverageDefault ==
    Categorized =>
        \E default \in Segments :
            \A r \in Rows : IsNaN(r.AVG_SENTIMENT) => r.SEGMENT = default
\* the per-customer frame computed from scratch over the records that pass
\* the current filters
FromScratch == WithSegments(GroupByCustomer(Passing))

\* C11: every interaction reruns the script and recomputes: after any sequence
\* of page, date-range and sentiment-filter changes the customer aggregates,
\* their segments and the at-risk list of the AI Insights page are those
\* computed from scratch over the records passing the current filters, and a
\* run holds no aggregate, segment or at-risk list before it has computed it.
C11_FreshRecomputation ==
    /\ pc = "categorize" => customer_segments = GroupByCustomer(Passing)
    /\ Categorized /\ page = AIInsights => customer_segments = FromScratch
    /\ AtRiskListed /\ page = AIInsights =>
           at_risk_customers = AtRiskCustomers(FromScratch)
    /\ pc = "done" /\ page = AIInsights => shown = Top(AtRiskCustomers(FromScratch))
    /\ pc \in {"start", "page", "groupby"} \/ page # AIInsights =>
           customer_segments = << >> /\ shown = << >>
    /\ pc \notin {"atrisk", "done"} \/ page # AIInsights => at_risk_customers = << >>

\* a run of the AI Insights page with a narrowed date range, which only a
\* rerun after the first run can be, over a table with another customer's
\* record outside the range
C11_Witness ==
    /\ pc = "done"
    /\ page = AIInsights
    /\ CustomerIdsOf(table) = {1, 2}
    /\ date_range = <<2, 2>>
    /\ date_range # DefaultRange(table)
    /\ sentiment_filter = SentimentOptions
    /\ Len(customer_segments) = 1
    /\ customer_segments[1].CUSTOMER_ID = 2
    /\ customer_segments[1].SEGMENT = HighRisk
    /\ at_risk_customers = <<2>>
    /\ shown = <<2>>

\* C12: the at-risk thresholds are looser than the High Risk thresholds:
\* every customer segmented as High Risk is in the at-risk list.  (That the
\* two sets differ is the state of C12_Witness: an aggregate with an average
\* between -0.3 and 0 and exactly 2 escalations is listed and not High Risk.)
C12_HighRiskWithinAtRisk ==
    /\ AtRiskSentiment > HighRiskSentiment
    /\ AtRiskEscalations < HighRiskEscalations
    /\ AtRiskListed =>
           \A r \in Rows : r.SEGMENT = HighRisk => InAtRisk(r.CUSTOMER_ID)

C12_Witness ==
    /\ AtRiskListed
    /\ Len(customer_segments) = 2
    /\ customer_segments[1].SEGMENT = HighRisk
    /\ InAtRisk(customer_segments[1].CUSTOMER_ID)
    /\ customer_segments[2].AVG_SENTIMENT = [num |-> -1, den |-> 1]
    /\ customer_segments[2].TOTAL_ESCALATIONS = 2
    /\ customer_segments[2].SEGMENT # HighRisk
    /\ InAtRisk(customer_segments[2].CUSTOMER_ID)

\* a record the sidebar filters are to keep (date_range is a pair whenever the
\* table has a record)
Retained(r) ==
    /\ date_range[1] <= r.DATE_RECEIVED
    /\ r.DATE_RECEIVED <= date_range[2]
    /\ sentiment_filter = {} \/ r.SENTIMENT_CATEGORY \in sentiment_filter

\* C13: the sidebar filters keep exactly the matching records, in table
\* order: a record is kept iff its date is within the selected range, both
\* ends included, and its sentiment category is selected; with nothing
\* selected the sentiment filter is not applied, so every record within the
\* date range is kept.
C13_FiltersKeepMatching ==
    pc # "start" =>
        /\ email_data = SelectSeq(table, Retained)
        /\ \A i \in 1..Len(table) :
               (\E j \in 1..Len(email_data) : email_data[j] = table[i])
                   <=> Retained(table[i])
        /\ sentiment_filter = {} =>
               Len(email_data)
                 = Cardinality({i \in 1..Len(table) :
                                    /\ table[i].DATE_RECEIVED >= date_range[1]
                                    /\ table[i].DATE_RECEIVED <= date_range[2]})

\* a one-day range with nothing selected keeps the record of that day, of
\* either sentiment, and drops the record of the day after
C13_Witness ==
    /\ pc # "start"
    /\ Len(table) = 2
    /\ table[1].DATE_RECEIVED = 3
    /\ table[2].DATE_RECEIVED = 2
    /\ table[2].SENTIMENT_CATEGORY = Negative
    /\ date_range = <<2, 2>>
    /\ sentiment_filter = {}
    /\ email_data = <<table[2]>>

\* C14: search_customers never propagates an error: when its query fails it
\* returns an empty frame and the page shows the same 'No results found' as
\* for a query that matched nothing; when the query succeeds it returns at
\* most 10 records.
C14_SearchNeverRaises ==
    page = CustomerSearch =>
        /\ error = "none" /\ pc # "aborted"
        /\ query = "raised" =>
               /\ search_results = << >>
               /\ pc = "done"
               /\ "no_results" \in rendered /\ "found" \notin rendered
        /\ query = "returned" /\ search_results = << >> =>
               "no_results" \in rendered /\ "found" \notin rendered
        /\ query = "returned" /\ search_results # << >> =>
               "found" \in rendered /\ "no_results" \notin rendered
        /\ Len(search_results) <= SearchLimit

\* a search whose query raised, ended with the 'No results found' notice
C14_Witness ==
    /\ page = CustomerSearch
    /\ pc = "done"
    /\ search_term # ""
    /\ query = "raised"
    /\ search_results = << >>
    /\ "no_results" \in rendered
    /\ error = "none"

\* the grouping of show_ai_insights has run
Grouped == page = AIInsights /\ pc \in {"categorize", "identify", "atrisk", "done"}

====
